---- MODULE Spec2Model ----
(***************************************************************************)
(* Model of the fc ("FlagConf") configuration library: the sources         *)
(* (EnvSource, PlainSource, JSONSource, JSONFlagSource) and the resolver   *)
(* ParseArgs.                                                              *)
(*                                                                         *)
(* Strings are sequences of one-character strings, so that ToUpper,        *)
(* Replace, TrimSpace, Split and Index compute what the Go functions       *)
(* compute.  Formatted texts (Name, Loc, error messages) are sequences     *)
(* whose fixed parts are single multi-character tokens.                    *)
(***************************************************************************)
EXTENDS Integers, Sequences, FiniteSets, TLC

VARIABLES
    decl,       \* the FlagSet's declarations: set of <<name, [def, kind]>>
    args,       \* the raw arguments handed to ParseArgs: Seq of [name, value]
    ctor,       \* the constructor argument each source was built from
    fsys,       \* the file system: set of <<filename, file>>
    environ,    \* the process environment: set of <<variable, value>>
    fs,         \* flag.FlagSet values: set of <<name, current string value>>
    srcs,       \* the source instances, in the order passed to ParseArgs
    opens,      \* per source instance: how often os.Open was called on its file
    found,      \* ParseArgs' found map (set of names mapped to true)
    setByArgs,  \* the names fs.Visit reported (snapshot of found at line 195)
    err,        \* ParseArgs' err variable
    ret,        \* what ParseArgs returned
    pc,         \* position inside ParseArgs, or "direct" for a bare source
    k,          \* index of the FlagSource initialisation loop (line 198)
    fi,         \* index of fs.VisitAll's enumeration (line 214)
    si,         \* index of the inner range over sources (line 219)
    values,     \* the values returned by the last successful Get (line 223)
    vi,         \* index of the range over values (line 232)
    log         \* history of the calls made: Parse, WithFlagValue, Get, Set

vars == <<decl, args, ctor, fsys, environ, fs, srcs, opens, found, setByArgs,
          err, ret, pc, k, fi, si, values, vi, log>>

----------------------------------------------------------------------------
(* Bounds of the model *)

MaxSources == 2
MaxArgs == 1
MaxGets == 3

----------------------------------------------------------------------------
(* Maps as sets of <<key, value>> pairs with unique keys *)

Has(m, key) == \E p \in m : p[1] = key

Lookup(m, key) == (CHOOSE p \in m : p[1] = key)[2]

Put(m, key, v) == {p \in m : p[1] # key} \cup {<<key, v>>}

Keys(m) == {p[1] : p \in m}

----------------------------------------------------------------------------
(* Package strings *)

ToUpperRune(c) ==
    CASE c = "a" -> "A" [] c = "b" -> "B" [] c = "c" -> "C"
      [] c = "f" -> "F" [] c = "j" -> "J" [] c = "m" -> "M"
      [] c = "n" -> "N" [] c = "p" -> "P" [] c = "x" -> "X"
      [] c = "z" -> "Z" [] OTHER -> c

ToUpper(s) == [i \in 1..Len(s) |-> ToUpperRune(s[i])]

\* envVarReplacer.Replace
EnvVarReplace(s) ==
    [i \in 1..Len(s) |-> IF s[i] \in {"-", ".", "/"} THEN "_" ELSE s[i]]

IsSpace(c) == c \in {" ", "\t"}

RECURSIVE TrimLeft(_)
TrimLeft(s) ==
    IF s = <<>> THEN <<>>
    ELSE IF IsSpace(Head(s)) THEN TrimLeft(Tail(s)) ELSE s

RECURSIVE TrimRight(_)
TrimRight(s) ==
    IF s = <<>> THEN <<>>
    ELSE IF IsSpace(s[Len(s)]) THEN TrimRight(SubSeq(s, 1, Len(s) - 1)) ELSE s

TrimSpace(s) == TrimRight(TrimLeft(s))

\* strings.IndexRune, 1-based; 0 when the rune does not occur
IndexRune(s, c) ==
    IF \E i \in 1..Len(s) : s[i] = c
    THEN CHOOSE i \in 1..Len(s) : s[i] = c /\ \A j \in 1..(i - 1) : s[j] # c
    ELSE 0

MatchAt(s, sub, i) ==
    /\ i + Len(sub) - 1 <= Len(s)
    /\ \A j \in 1..Len(sub) : s[i + j - 1] = sub[j]

\* strings.Index, 1-based; 0 when sub does not occur
Index(s, sub) ==
    IF \E i \in 1..Len(s) : MatchAt(s, sub, i)
    THEN CHOOSE i \in 1..Len(s) :
            MatchAt(s, sub, i) /\ \A j \in 1..(i - 1) : ~MatchAt(s, sub, j)
    ELSE 0

Contains(s, sub) == sub = <<>> \/ Index(s, sub) > 0

\* strings.Split(s, ","): always at least one element
RECURSIVE Split(_, _)
Split(s, c) ==
    LET i == IndexRune(s, c) IN
    IF i = 0 THEN <<s>>
    ELSE <<SubSeq(s, 1, i - 1)>> \o Split(SubSeq(s, i + 1, Len(s)), c)

Quote(s) == <<"\"">> \o s \o <<"\"">>

----------------------------------------------------------------------------
(* Errors: the message text and the identity of the error value *)

NilErr == [is |-> "nil", msg |-> <<>>]

ErrMissing == [is |-> "ErrMissing", msg |-> <<"key not present in the store">>]

ErrorNew(kind, msg) == [is |-> kind, msg |-> msg]

\* errors.Wrap / errors.Wrapf: a new error value whose text prefixes the cause
Wrap(e, msg) == [is |-> "wrapped", msg |-> msg \o <<": ">> \o e.msg]

----------------------------------------------------------------------------
(* Files.  A file is its text lines together with what encoding/json makes *)
(* of it when decoding into a map[string]interface{}: "bad" (a decode      *)
(* error), "null" (the map is left nil) or "object".                       *)

File(lines, t, m) == [lines |-> lines, t |-> t, m |-> m]

\* decoded JSON values (interface{}): string, json.Number, bool, nil,
\* map[string]interface{} and []interface{}
JString(s) == [t |-> "string", s |-> s, b |-> FALSE, a |-> <<>>]
JNumber(s) == [t |-> "number", s |-> s, b |-> FALSE, a |-> <<>>]
JBool(b)   == [t |-> "bool",   s |-> <<>>, b |-> b, a |-> <<>>]
JNil       == [t |-> "nil",    s |-> <<>>, b |-> FALSE, a |-> <<>>]
JObject    == [t |-> "object", s |-> <<>>, b |-> FALSE, a |-> <<>>]
JArray(a)  == [t |-> "array",  s |-> <<>>, b |-> FALSE, a |-> a]

----------------------------------------------------------------------------
(* Source instances: one record shape for the four struct types *)

Source(kind, prefix, filename, flagName) ==
    [kind |-> kind, prefix |-> prefix, filename |-> filename,
     flagName |-> flagName, mnil |-> TRUE, m |-> {}]

WithEnv(prefix) == Source("env", ToUpper(prefix) \o <<"_">>, <<>>, <<>>)

WithConfigFile(filename) == Source("plain", <<>>, filename, <<>>)

\* src/jsonconf.go
NewJSONSource(filename) == Source("json0", <<>>, filename, <<>>)

\* the JSONSource of the file that also declares JSONFlagSource
WithJSONFile(filename) == Source("json", <<>>, filename, <<>>)

WithJSONFileFlag(flag) == Source("jsonflag", <<>>, <<>>, flag)

\* no source satisfies the FlagSource interface
IsFlagSourceNever(s) == FALSE

\* fls, ok := source.(FlagSource)
IsFlagSource(s) == s.kind = "jsonflag"

FlagNeeded(s) == s.flagName

EnvLoc(s, key) ==
    LET up == ToUpper(key) IN
    EnvVarReplace(IF s.prefix # <<>> THEN s.prefix \o up ELSE up)

FileLoc(s, key) == s.filename \o <<", key ">> \o Quote(key)

Loc(s, key) == IF s.kind = "env" THEN EnvLoc(s, key) ELSE FileLoc(s, key)

EnvName(s) ==
    IF s.prefix = <<>> THEN <<"environment variables">>
    ELSE <<"environment variables with the prefix ">> \o Quote(s.prefix)

Name(s) ==
    CASE s.kind = "env" -> EnvName(s)
      [] s.kind = "plain" -> <<"configuration file ">> \o Quote(s.filename)
      [] s.kind = "jsonflag" ->
            <<"JSON configuration file defined by ">> \o Quote(s.flagName)
                \o <<" flag">>
      [] OTHER -> <<"JSON configuration file ">> \o Quote(s.filename)

\* JSONFlagSource.WithFlagValue: the filename is stored before the check
WithFlagValue(s, value) ==
    [s   |-> [s EXCEPT !.filename = value],
     err |-> IF value = <<>>
             THEN ErrorNew("new", <<"JSONFlagSource given an empty string">>)
             ELSE NilErr]

----------------------------------------------------------------------------
(* Get.  Every Get returns the source's next state, the values, the error, *)
(* and whether os.Open was called.                                         *)

GetResult(s, vals, e, opened) ==
    [s |-> s, vals |-> vals, err |-> e, opened |-> opened]

OpenErr(filename) ==
    ErrorNew("PathError", <<"open ">> \o filename
                            \o <<": no such file or directory">>)

EnvGet(s, key, env) ==
    LET name == EnvLoc(s, key) IN
    IF ~Has(env, name) THEN GetResult(s, <<>>, ErrMissing, 0)
    ELSE GetResult(s, Split(Lookup(env, name), ","), NilErr, 0)

\* the body of PlainSource.init's scan loop for one line
PlainLine(m, text) ==
    LET line  == TrimSpace(text)
        index == IndexRune(line, " ")
        name  == IF index = 0 THEN line ELSE SubSeq(line, 1, index - 1)
        value == IF index = 0 THEN <<"t", "r", "u", "e">>
                 ELSE TrimSpace(SubSeq(line, index, Len(line)))
        i     == Index(value, <<" ", "#">>)
        cut   == IF i > 0 THEN TrimSpace(SubSeq(value, 1, i - 1)) ELSE value
    IN  IF line = <<>> THEN m
        ELSE IF line[1] = "#" THEN m
        ELSE Put(m, name, Split(cut, ","))

RECURSIVE PlainScan(_, _)
PlainScan(m, lines) ==
    IF lines = <<>> THEN m
    ELSE PlainScan(PlainLine(m, Head(lines)), Tail(lines))

\* PlainSource.init: p.m is made before the file is opened
PlainInit(s, files) ==
    LET made == [s EXCEPT !.mnil = FALSE, !.m = {}] IN
    IF ~Has(files, s.filename)
    THEN [s |-> made, err |-> OpenErr(s.filename)]
    ELSE [s |-> [made EXCEPT !.m = PlainScan({}, Lookup(files, s.filename).lines)],
          err |-> NilErr]

PlainGet(s, key, files) ==
    LET r == IF s.mnil THEN PlainInit(s, files) ELSE [s |-> s, err |-> NilErr]
        o == IF s.mnil THEN 1 ELSE 0
    IN  IF r.err # NilErr THEN GetResult(r.s, <<>>, r.err, o)
        ELSE IF ~Has(r.s.m, key) THEN GetResult(r.s, <<>>, ErrMissing, o)
        ELSE GetResult(r.s, Lookup(r.s.m, key), NilErr, o)

\* JSONSource.init: j.m is assigned only after a successful Decode, and a
\* JSON null decodes to a nil map
JSONInit(s, files) ==
    IF ~Has(files, s.filename) THEN [s |-> s, err |-> OpenErr(s.filename)]
    ELSE LET f == Lookup(files, s.filename) IN
         CASE f.t = "bad" ->
                [s |-> s,
                 err |-> Wrap(ErrorNew("SyntaxError", <<"invalid character">>),
                              <<"error parsing JSON config">>)]
           [] f.t = "null" -> [s |-> [s EXCEPT !.mnil = TRUE, !.m = {}],
                               err |-> NilErr]
           [] OTHER -> [s |-> [s EXCEPT !.mnil = FALSE, !.m = f.m],
                        err |-> NilErr]

BoolText(b) == IF b THEN <<"t", "r", "u", "e">> ELSE <<"f", "a", "l", "s", "e">>

stringifyValue(val) ==
    CASE val.t = "string" -> [s |-> val.s, err |-> NilErr]
      [] val.t = "number" -> [s |-> val.s, err |-> NilErr]
      [] val.t = "bool"   -> [s |-> BoolText(val.b), err |-> NilErr]
      [] OTHER -> [s |-> <<>>,
                   err |-> ErrorNew("new", <<"could not convert to string">>)]

stringifySlice(val) ==
    IF val.t = "array"
    THEN IF \E i \in 1..Len(val.a) : stringifyValue(val.a[i]).err # NilErr
         THEN [ss |-> <<>>,
               err |-> ErrorNew("new", <<"could not convert to string">>)]
         ELSE [ss |-> [i \in 1..Len(val.a) |-> stringifyValue(val.a[i]).s],
               err |-> NilErr]
    ELSE LET r == stringifyValue(val) IN
         [ss |-> IF r.err = NilErr THEN <<r.s>> ELSE <<>>, err |-> r.err]

\* j.m[key]: the zero value (a nil interface) when the key is absent
MapIndex(m, key) == IF Has(m, key) THEN Lookup(m, key) ELSE JNil

JSONStringify(s, key, o) ==
    LET r == stringifySlice(MapIndex(s.m, key)) IN
    IF r.err # NilErr
    THEN GetResult(s, <<>>, Wrap(r.err, <<"error parsing JSON config">>), o)
    ELSE GetResult(s, r.ss, NilErr, o)

\* JSONSource.Get of src/jsonconf.go
JSONGet0(s, key, files) ==
    LET r == IF s.mnil THEN JSONInit(s, files) ELSE [s |-> s, err |-> NilErr]
        o == IF s.mnil THEN 1 ELSE 0
    IN  IF r.err # NilErr THEN GetResult(r.s, <<>>, r.err, o)
        ELSE JSONStringify(r.s, key, o)

\* JSONSource.Get of the file that also declares JSONFlagSource
JSONGet(s, key, files) ==
    LET r == IF s.mnil THEN JSONInit(s, files) ELSE [s |-> s, err |-> NilErr]
        o == IF s.mnil THEN 1 ELSE 0
    IN  IF r.err # NilErr THEN GetResult(r.s, <<>>, r.err, o)
        ELSE IF ~Has(r.s.m, key) THEN GetResult(r.s, <<>>, ErrMissing, o)
        ELSE JSONStringify(r.s, key, o)

\* dynamic dispatch of Source.Get
Get(s, key, files, env) ==
    CASE s.kind = "env"   -> EnvGet(s, key, env)
      [] s.kind = "plain" -> PlainGet(s, key, files)
      [] s.kind = "json0" -> JSONGet0(s, key, files)
      [] OTHER            -> JSONGet(s, key, files)

----------------------------------------------------------------------------
(* The flag engine (package flag) as ParseArgs uses it *)

Flag(def, kind) == [def |-> def, kind |-> kind]

\* flag.Value.Set: a string flag takes any text, a bool flag what
\* strconv.ParseBool takes, and String() then gives "true" or "false"
ValueSet(kind, v) ==
    IF kind = "string" THEN [ok |-> TRUE, val |-> v]
    ELSE IF v \in {<<"t", "r", "u", "e">>, <<"t">>, <<"1">>}
         THEN [ok |-> TRUE, val |-> BoolText(TRUE)]
    ELSE IF v \in {<<"f", "a", "l", "s", "e">>, <<"f">>, <<"0">>}
         THEN [ok |-> TRUE, val |-> BoolText(FALSE)]
    ELSE [ok |-> FALSE, val |-> <<>>]

\* fs.Set(name, value)
FlagSetSet(d, f, name, v) ==
    IF ~Has(d, name)
    THEN [fs |-> f, err |-> ErrorNew("flag", <<"no such flag -">> \o name)]
    ELSE LET r == ValueSet(Lookup(d, name).kind, v) IN
         IF r.ok THEN [fs |-> Put(f, name, r.val), err |-> NilErr]
         ELSE [fs |-> f,
               err |-> ErrorNew("flag", <<"parse error">>)]

\* fs.Parse(args): the arguments are applied in order up to the first
\* failure; actual collects the names that were set
RECURSIVE FlagParse(_, _, _, _)
FlagParse(d, f, actual, as) ==
    IF as = <<>> THEN [fs |-> f, actual |-> actual, err |-> NilErr]
    ELSE LET a == Head(as) IN
         IF ~Has(d, a.name)
         THEN [fs |-> f, actual |-> actual,
               err |-> ErrorNew("flag", <<"flag provided but not defined: -">>
                                          \o a.name)]
         ELSE LET r == FlagSetSet(d, f, a.name, a.value) IN
              IF r.err # NilErr
              THEN [fs |-> f, actual |-> actual,
                    err |-> ErrorNew("flag", <<"invalid value ">> \o Quote(a.value)
                                               \o <<" for flag -">> \o a.name)]
              ELSE FlagParse(d, r.fs, actual \cup {a.name}, Tail(as))

RuneOrder == <<"\t", " ", "\"", "#", ",", "-", ".", "/", "0", "1", "2", "3",
               ":", "[", "]", "_", "a", "b", "c", "e", "f", "j", "l", "m",
               "n", "p", "r", "s", "t", "u", "x", "z", "{", "}">>

Rank(c) == CHOOSE i \in 1..Len(RuneOrder) : RuneOrder[i] = c

RECURSIVE StrLess(_, _)
StrLess(x, y) ==
    IF y = <<>> THEN FALSE
    ELSE IF x = <<>> THEN TRUE
    ELSE IF Head(x) = Head(y) THEN StrLess(Tail(x), Tail(y))
    ELSE Rank(Head(x)) < Rank(Head(y))

\* fs.VisitAll / fs.Visit enumerate in lexicographical order of the names
RECURSIVE SortNames(_)
SortNames(names) ==
    IF names = {} THEN <<>>
    ELSE LET least == CHOOSE n \in names :
                          \A o \in names \ {n} : StrLess(n, o)
         IN  <<least>> \o SortNames(names \ {least})

VisitAll(d) == SortNames(Keys(d))

----------------------------------------------------------------------------
(* The inputs the model draws from *)

A  == <<"a">>
BC == <<"b", "-", "c">>
F  == <<"f">>
Z  == <<"z">>

FileP == <<"p">>
FileJ == <<"j">>
FileN == <<"n">>
FileX == <<"x">>

Decls ==
    { {<<A, Flag(<<"d">>, "string")>>, <<BC, Flag(BoolText(FALSE), "bool")>>,
       <<F, Flag(FileJ, "string")>>},
      {<<A, Flag(<<"d">>, "string")>>, <<BC, Flag(BoolText(FALSE), "bool")>>},
      {<<A, Flag(<<"d">>, "string")>>, <<F, Flag(<<>>, "string")>>} }

Arg(name, value) == [name |-> name, value |-> value]

ArgPool ==
    { Arg(A, <<"1">>), Arg(F, FileN), Arg(F, <<>>), Arg(BC, <<"x">>),
      Arg(BC, <<"t">>), Arg(Z, <<"1">>) }

PlainText ==
    << <<"#", " ", "c">>,
       <<>>,
       <<"a", " ", "1", ",", " ", "2", " ", "#", "c">>,
       <<"b", "-", "c">>,
       <<"f", "\t", "n">> >>

JSONText ==
    << <<"{", "\"", "a", "\"", ":", "[", "]", ",",
         "\"", "b", "-", "c", "\"", ":", "[", "t", "r", "u", "e", ",",
         "\"", "x", "\"", ",", "f", "a", "l", "s", "e", "]", ",",
         "\"", "z", "\"", ":", "n", "u", "l", "l", "}">> >>

JSONObject ==
    { <<A, JArray(<<>>)>>,
      <<BC, JArray(<<JBool(TRUE), JString(<<"x">>), JBool(FALSE)>>)>>,
      <<Z, JNil>> }

FileSystem ==
    { <<FileP, File(PlainText, "bad", {})>>,
      <<FileJ, File(JSONText, "object", JSONObject)>>,
      <<FileN, File(<< <<"n", "u", "l", "l">> >>, "null", {})>> }

Environ ==
    { << <<"P", "_", "A">>, <<"1", ",", " ", "2">> >>,
      << <<"P", "_", "F">>, FileN >>,
      << A, <<"0">> >>,
      << <<"A">>, <<"3">> >> }

Ctor(fn, arg) == [fn |-> fn, arg |-> arg]

Build(c) ==
    CASE c.fn = "WithEnv" -> WithEnv(c.arg)
      [] c.fn = "WithConfigFile" -> WithConfigFile(c.arg)
      [] c.fn = "NewJSONSource" -> NewJSONSource(c.arg)
      [] c.fn = "WithJSONFile" -> WithJSONFile(c.arg)
      [] OTHER -> WithJSONFileFlag(c.arg)

SourcePool ==
    { Ctor("WithEnv", <<"p">>), Ctor("WithEnv", <<>>),
      Ctor("WithConfigFile", FileP), Ctor("WithConfigFile", FileX),
      Ctor("NewJSONSource", FileJ), Ctor("WithJSONFile", FileJ),
      Ctor("WithJSONFile", FileN), Ctor("WithJSONFileFlag", F),
      Ctor("WithJSONFileFlag", Z) }

GetPool ==
    SourcePool \cup
    { Ctor("NewJSONSource", FileN), Ctor("NewJSONSource", FileX),
      Ctor("NewJSONSource", FileP), Ctor("WithJSONFile", FileX),
      Ctor("WithJSONFile", FileP), Ctor("WithEnv", <<"p", "-", "x">>) }

GetKeys == {A, BC, F, Z}

SeqsUpTo(S, n) == UNION {[1..m -> S] : m \in 0..n}

----------------------------------------------------------------------------
(* The history of calls *)

Event(op, src, key, arg, e, vals) ==
    [op |-> op, src |-> src, key |-> key, arg |-> arg, err |-> e,
     vals |-> vals]

----------------------------------------------------------------------------
(* ParseArgs *)

\* the parse error is not looked at
ParseFailedNever(e) == FALSE

\* err := fs.Parse(args); if err != nil { return err }
ParseFailed(e) == e # NilErr

\* the explicitly set flags are not recorded
VisitNone(actual) == {}

\* fs.Visit(func(f) { found[f.Name] = true })
Visit(actual) == actual

\* the closure sets the flag VisitAll enumerates last
SetTargetLast(flags, i) == flags[Len(flags)]

\* the f.Name handed to fs.Set inside the closure
SetTarget(flags, i) == flags[i]

\* if found[f.Name] { return }
AlreadyFound(fnd, name) == name \in fnd

\* the flag is not marked after a successful Set
MarkFoundNot(fnd, name) == fnd

\* found[f.Name] = true
MarkFound(fnd, name) == fnd \cup {name}

\* every error of Get is treated like ErrMissing
ClassifyLenient(serr) == IF serr = NilErr THEN "apply" ELSE "continue"

\* switch serr { case ErrMissing: continue; case nil: ; default: abort }
Classify(serr) ==
    CASE serr = ErrMissing -> "continue"
      [] serr = NilErr -> "apply"
      [] OTHER -> "abort"

\* the current value is handed over as it is, empty or not
NeededValAsIs(val, def) == val

\* neededVal := needed.Value.String(), or needed.DefValue when that is empty
NeededVal(val, def) == IF val = <<>> THEN def ELSE val

\* the message leaves the flag out
NeededNotFoundBare(s) ==
    ErrorNew("fundamental", <<"Flag source needed flag, but it was not found">>)

NeededNotFound(s) ==
    ErrorNew("fundamental",
             <<"Flag source needed flag ">> \o Quote(FlagNeeded(s))
                \o <<", but it was not found">>)

InitFailed(s, e) ==
    Wrap(e, <<"cannot initialize source ">> \o Quote(Name(s))
              \o <<" with value from flag ">> \o Quote(FlagNeeded(s)))

\* the setter's error is returned as it is
SetFailedBare(s, name, e) == e

SetFailed(s, name, e) ==
    Wrap(e, <<"error setting flag ">> \o Quote(name) \o <<" from ">>
              \o Loc(s, name))

Flags == VisitAll(decl)

InParseArgs == pc \in {"parse", "init", "sweep", "set"}

Config == <<decl, args, ctor, fsys, environ>>

\* fs.Parse(args), the early return, and the fs.Visit that fills found
ParseStep ==
    /\ pc = "parse"
    /\ LET r == FlagParse(decl, fs, {}, args) IN
       /\ fs' = r.fs
       /\ log' = Append(log, Event("Parse", 0, <<>>, <<>>, r.err, <<>>))
       /\ err' = r.err
       /\ IF ParseFailed(r.err)
          THEN /\ pc' = "done"
               /\ ret' = r.err
               /\ UNCHANGED <<found, setByArgs>>
          ELSE /\ pc' = "init"
               /\ found' = Visit(r.actual)
               /\ setByArgs' = r.actual
               /\ UNCHANGED ret
    /\ UNCHANGED <<Config, srcs, opens, k, fi, si, values, vi>>

\* the range over sources at line 198 is exhausted
InitEnd ==
    /\ pc = "init"
    /\ k > Len(srcs)
    /\ pc' = "sweep"
    /\ fi' = 1
    /\ si' = 1
    /\ UNCHANGED <<Config, fs, srcs, opens, found, setByArgs, err, ret, k,
                   values, vi, log>>

\* source.(FlagSource) fails: an ordinary source
InitSkip ==
    /\ pc = "init"
    /\ k <= Len(srcs)
    /\ ~IsFlagSource(srcs[k])
    /\ k' = k + 1
    /\ UNCHANGED <<Config, fs, srcs, opens, found, setByArgs, err, ret, pc,
                   fi, si, values, vi, log>>

\* fs.Lookup(fls.FlagNeeded()) == nil
InitNeededMissing ==
    /\ pc = "init"
    /\ k <= Len(srcs)
    /\ IsFlagSource(srcs[k])
    /\ ~Has(decl, FlagNeeded(srcs[k]))
    /\ ret' = NeededNotFound(srcs[k])
    /\ pc' = "done"
    /\ UNCHANGED <<Config, fs, srcs, opens, found, setByArgs, err, k, fi, si,
                   values, vi, log>>

\* fls.WithFlagValue(neededVal)
InitWithFlagValue ==
    /\ pc = "init"
    /\ k <= Len(srcs)
    /\ IsFlagSource(srcs[k])
    /\ Has(decl, FlagNeeded(srcs[k]))
    /\ LET name      == FlagNeeded(srcs[k])
           neededVal == NeededVal(Lookup(fs, name), Lookup(decl, name).def)
           r         == WithFlagValue(srcs[k], neededVal)
       IN  /\ srcs' = [srcs EXCEPT ![k] = r.s]
           /\ log' = Append(log, Event("WithFlagValue", k, name, neededVal,
                                       r.err, <<>>))
           /\ IF r.err # NilErr
              THEN /\ ret' = InitFailed(r.s, r.err)
                   /\ pc' = "done"
                   /\ k' = k
              ELSE /\ k' = k + 1
                   /\ UNCHANGED <<ret, pc>>
    /\ UNCHANGED <<Config, fs, opens, found, setByArgs, err, fi, si, values,
                   vi>>

\* fs.VisitAll has visited every flag: return err
SweepEnd ==
    /\ pc = "sweep"
    /\ fi > Len(Flags)
    /\ ret' = err
    /\ pc' = "done"
    /\ UNCHANGED <<Config, fs, srcs, opens, found, setByArgs, err, k, fi, si,
                   values, vi, log>>

\* if err != nil { return }: the remaining flags are visited and skipped
SweepBail ==
    /\ pc = "sweep"
    /\ fi <= Len(Flags)
    /\ err # NilErr
    /\ fi' = fi + 1
    /\ si' = 1
    /\ UNCHANGED <<Config, fs, srcs, opens, found, setByArgs, err, ret, pc, k,
                   values, vi, log>>

\* the range over sources at line 219 is exhausted for this flag
SweepNextFlag ==
    /\ pc = "sweep"
    /\ fi <= Len(Flags)
    /\ err = NilErr
    /\ si > Len(srcs)
    /\ fi' = fi + 1
    /\ si' = 1
    /\ UNCHANGED <<Config, fs, srcs, opens, found, setByArgs, err, ret, pc, k,
                   values, vi, log>>

\* if found[f.Name] { return }
SweepFound ==
    /\ pc = "sweep"
    /\ fi <= Len(Flags)
    /\ err = NilErr
    /\ si <= Len(srcs)
    /\ AlreadyFound(found, Flags[fi])
    /\ fi' = fi + 1
    /\ si' = 1
    /\ UNCHANGED <<Config, fs, srcs, opens, found, setByArgs, err, ret, pc, k,
                   values, vi, log>>

\* values, serr := source.Get(f.Name) and the switch on serr
SweepGet ==
    /\ pc = "sweep"
    /\ fi <= Len(Flags)
    /\ err = NilErr
    /\ si <= Len(srcs)
    /\ ~AlreadyFound(found, Flags[fi])
    /\ LET name == Flags[fi]
           r    == Get(srcs[si], name, fsys, environ)
           c    == Classify(r.err)
       IN  /\ srcs' = [srcs EXCEPT ![si] = r.s]
           /\ opens' = [opens EXCEPT ![si] = @ + r.opened]
           /\ log' = Append(log, Event("Get", si, name, <<>>, r.err, r.vals))
           /\ CASE c = "continue" ->
                    /\ si' = si + 1
                    /\ UNCHANGED <<err, fi, pc, values, vi>>
                [] c = "apply" ->
                    /\ values' = r.vals
                    /\ vi' = 1
                    /\ pc' = "set"
                    /\ UNCHANGED <<err, fi, si>>
                [] OTHER ->
                    /\ err' = r.err
                    /\ fi' = fi + 1
                    /\ si' = 1
                    /\ UNCHANGED <<pc, values, vi>>
    /\ UNCHANGED <<Config, fs, found, setByArgs, ret, k>>

\* fs.Set(f.Name, strings.TrimSpace(individual)) for one of the values
SetValue ==
    /\ pc = "set"
    /\ vi <= Len(values)
    /\ LET name == Flags[fi]
           v    == TrimSpace(values[vi])
           r    == FlagSetSet(decl, fs, SetTarget(Flags, fi), v)
       IN  /\ log' = Append(log, Event("Set", si, SetTarget(Flags, fi), v,
                                       r.err, <<>>))
           /\ fs' = r.fs
           /\ IF r.err # NilErr
              THEN /\ err' = SetFailed(srcs[si], name, r.err)
                   /\ fi' = fi + 1
                   /\ si' = 1
                   /\ pc' = "sweep"
                   /\ UNCHANGED <<found, vi>>
              ELSE /\ found' = MarkFound(found, name)
                   /\ vi' = vi + 1
                   /\ UNCHANGED <<err, fi, si, pc>>
    /\ UNCHANGED <<Config, srcs, opens, setByArgs, ret, k, values>>

\* the range over values is exhausted: on to the next source
SetEnd ==
    /\ pc = "set"
    /\ vi > Len(values)
    /\ si' = si + 1
    /\ pc' = "sweep"
    /\ UNCHANGED <<Config, fs, srcs, opens, found, setByArgs, err, ret, k, fi,
                   values, vi, log>>

Init ==
    /\ decl \in Decls
    /\ args \in SeqsUpTo(ArgPool, MaxArgs)
    /\ ctor \in SeqsUpTo(SourcePool, MaxSources)
    /\ fsys = FileSystem
    /\ environ = Environ
    /\ fs = {<<p[1], p[2].def>> : p \in decl}
    /\ srcs = [i \in 1..Len(ctor) |-> Build(ctor[i])]
    /\ opens = [i \in 1..Len(ctor) |-> 0]
    /\ found = {}
    /\ setByArgs = {}
    /\ err = NilErr
    /\ ret = NilErr
    /\ pc = "parse"
    /\ k = 1
    /\ fi = 1
    /\ si = 1
    /\ values = <<>>
    /\ vi = 1
    /\ log = <<>>

Next ==
    \/ ParseStep
    \/ InitEnd
    \/ InitSkip
    \/ InitNeededMissing
    \/ InitWithFlagValue
    \/ SweepEnd
    \/ SweepBail
    \/ SweepNextFlag
    \/ SweepFound
    \/ SweepGet
    \/ SetValue
    \/ SetEnd

Spec == Init /\ [][Next]_vars

----------------------------------------------------------------------------
(* A source instance used on its own: any sequence of Get calls *)

DirectGet(key) ==
    /\ pc = "direct"
    /\ Len(log) < MaxGets
    /\ LET r == Get(srcs[1], key, fsys, environ) IN
       /\ srcs' = [srcs EXCEPT ![1] = r.s]
       /\ opens' = [opens EXCEPT ![1] = @ + r.opened]
       /\ log' = Append(log, Event("Get", 1, key, <<>>, r.err, r.vals))
    /\ UNCHANGED <<Config, fs, found, setByArgs, err, ret, pc, k, fi, si,
                   values, vi>>

DirectWithFlagValue(value) ==
    /\ pc = "direct"
    /\ log = <<>>
    /\ IsFlagSource(srcs[1])
    /\ LET r == WithFlagValue(srcs[1], value) IN
       /\ srcs' = [srcs EXCEPT ![1] = r.s]
       /\ log' = Append(log, Event("WithFlagValue", 1, FlagNeeded(srcs[1]),
                                   value, r.err, <<>>))
    /\ UNCHANGED <<Config, fs, opens, found, setByArgs, err, ret, pc, k, fi,
                   si, values, vi>>

InitGet ==
    /\ decl = {}
    /\ args = <<>>
    /\ \E c \in GetPool : ctor = <<c>>
    /\ fsys = FileSystem
    /\ environ = Environ
    /\ fs = {}
    /\ srcs = [i \in 1..Len(ctor) |-> Build(ctor[i])]
    /\ opens = [i \in 1..Len(ctor) |-> 0]
    /\ found = {}
    /\ setByArgs = {}
    /\ err = NilErr
    /\ ret = NilErr
    /\ pc = "direct"
    /\ k = 1
    /\ fi = 1
    /\ si = 1
    /\ values = <<>>
    /\ vi = 1
    /\ log = <<>>

NextGet ==
    \/ \E key \in GetKeys : DirectGet(key)
    \/ \E value \in {FileJ, FileN, <<>>} : DirectWithFlagValue(value)

SpecGet == InitGet /\ [][NextGet]_vars

----------------------------------------------------------------------------
(* Properties of ParseArgs *)

Idx == 1..Len(log)

IsGetOf(e, n) == e.op = "Get" /\ e.key = n

GetsFor(n) == SelectSeq(log, LAMBDA e : IsGetOf(e, n))

Untouched(n) == \A i \in Idx : log[i].op \in {"Get", "Set"} => log[i].key # n

\* what the command line leaves in flag n: its last argument, as the flag's
\* type renders it
ArgValue(n) ==
    LET I    == {i \in 1..Len(args) : args[i].name = n}
        last == CHOOSE i \in I : \A j \in I : j <= i
    IN  ValueSet(Lookup(decl, n).kind, args[last].value).val

\* the value of flag n after all of vals were set, in order
Applied(n, vals) ==
    ValueSet(Lookup(decl, n).kind, TrimSpace(vals[Len(vals)])).val

Offers(i, n) ==
    LET r == Get(srcs[i], n, fsys, environ) IN r.err = NilErr /\ r.vals # <<>>

NotByArgs == Keys(decl) \ setByArgs

\* C1: a flag the flag engine reports as set by the arguments is never
\* looked up in a source and never set by the sweep; it keeps the value the
\* arguments gave it.
C1_ArgsAlwaysWin ==
    \A n \in setByArgs : Untouched(n) /\ Lookup(fs, n) = ArgValue(n)

C1_Witness ==
    /\ pc = "done"
    /\ ret = NilErr
    /\ \E n \in setByArgs : \E i \in 1..Len(srcs) :
          /\ Offers(i, n)
          /\ \E e \in {log[j] : j \in Idx} : e.op = "Get" /\ e.src = i

\* C2 as stated: for a flag not set by the arguments the sources are
\* queried in the order passed, the first source whose Get returns anything
\* but ErrMissing is the last source queried for the flag, and its values
\* are the flag's final value.
C2_FirstNonMissingWins ==
    \A n \in NotByArgs :
        LET g == GetsFor(n) IN
        /\ \A i \in 1..Len(g) : g[i].src = i
        /\ \A i \in 1..Len(g) : g[i].err # ErrMissing => i = Len(g)
        /\ (pc = "done" /\ ret = NilErr /\ g # <<>> /\ g[Len(g)].vals # <<>>)
              => Lookup(fs, n) = Applied(n, g[Len(g)].vals)

PassedOver(e) == e.err = ErrMissing \/ (e.err = NilErr /\ e.vals = <<>>)

\* C2 amended: the sources are queried in the order passed; a source that
\* returns ErrMissing or an empty list of values is passed over; the first
\* source that returns anything else is the last source queried for the
\* flag, and when ParseArgs returns no error its values are the flag's
\* final value.
C2_FirstValueWins ==
    \A n \in NotByArgs :
        LET g == GetsFor(n) IN
        /\ \A i \in 1..Len(g) : g[i].src = i
        /\ \A i \in 1..Len(g) : ~PassedOver(g[i]) => i = Len(g)
        /\ (pc = "done" /\ ret = NilErr /\ g # <<>> /\ g[Len(g)].vals # <<>>)
              => Lookup(fs, n) = Applied(n, g[Len(g)].vals)

C2_Witness ==
    /\ pc = "done"
    /\ ret = NilErr
    /\ \E n \in NotByArgs :
          LET g == GetsFor(n) IN
          /\ g # <<>>
          /\ g[Len(g)].vals # <<>>
          /\ Len(g) < Len(srcs)
          /\ Offers(Len(g) + 1, n)

AllMissing(n) ==
    \A i \in 1..Len(srcs) : \E j \in Idx :
        IsGetOf(log[j], n) /\ log[j].src = i /\ log[j].err = ErrMissing

\* C3: when ParseArgs returns no error, a flag that the arguments did not
\* set and for which every source returned ErrMissing has its declared
\* default, and the setter was never called for it.
C3_DefaultKept ==
    (pc = "done" /\ ret = NilErr) =>
        \A n \in NotByArgs :
            AllMissing(n) =>
                /\ Lookup(fs, n) = Lookup(decl, n).def
                /\ \A i \in Idx : log[i].op = "Set" => log[i].key # n

C3_Witness ==
    /\ pc = "done"
    /\ ret = NilErr
    /\ Len(srcs) = MaxSources
    /\ \E n \in NotByArgs : AllMissing(n)
    /\ \E i \in Idx : log[i].op = "Set"

\* C4: when fs.Parse fails, ParseArgs returns that error at once: Parse is
\* the only call made, no source is initialised, queried or opened.
C4_ParseErrorStops ==
    (log # <<>> /\ log[1].op = "Parse" /\ log[1].err # NilErr) =>
        /\ pc = "done"
        /\ ret = log[1].err
        /\ Len(log) = 1
        /\ srcs = [i \in 1..Len(ctor) |-> Build(ctor[i])]
        /\ \A i \in 1..Len(opens) : opens[i] = 0

C4_Witness ==
    /\ pc = "done"
    /\ log[1].err # NilErr
    /\ \E i \in 1..Len(ctor) : ctor[i].fn = "WithJSONFileFlag"
    /\ \E i \in 1..Len(ctor) : ctor[i].fn = "WithEnv"

Fatal(e) == e # NilErr /\ e # ErrMissing

FlagDriven(i) == ctor[i].fn = "WithJSONFileFlag"

UndeclaredNeeded(i) == FlagDriven(i) /\ ~Has(decl, ctor[i].arg)

FirstUndeclared ==
    CHOOSE i \in 1..Len(ctor) :
        UndeclaredNeeded(i) /\ \A j \in 1..(i - 1) : ~UndeclaredNeeded(j)

ParsedOk == log # <<>> /\ log[1].op = "Parse" /\ log[1].err = NilErr

NoGetYet == \A j \in Idx : log[j].op # "Get"

InitFailure == \E j \in Idx : log[j].op = "WithFlagValue" /\ log[j].err # NilErr

WithFlagValueCalls(i) ==
    {j \in Idx : log[j].op = "WithFlagValue" /\ log[j].src = i}

ReachedSweep == pc \in {"sweep", "set", "done"} /\ k > Len(srcs)

\* C7: once ParseArgs has reached the sweep, WithFlagValue was called
\* exactly once on every flag-driven source, successfully, after Parse and
\* before every Get; and no Get is ever made on a flag-driven source
\* without an earlier successful WithFlagValue on it.
C7_InitBeforeGet ==
    /\ ReachedSweep =>
          \A i \in 1..Len(ctor) :
              FlagDriven(i) =>
                  /\ Cardinality(WithFlagValueCalls(i)) = 1
                  /\ \A j \in WithFlagValueCalls(i) :
                        /\ log[j].err = NilErr
                        /\ \E p \in 1..(j - 1) : log[p].op = "Parse"
                        /\ \A g \in Idx : log[g].op = "Get" => j < g
    /\ \A g \in Idx :
          (log[g].op = "Get" /\ FlagDriven(log[g].src)) =>
              \E j \in 1..(g - 1) :
                  /\ log[j].op = "WithFlagValue"
                  /\ log[j].src = log[g].src
                  /\ log[j].err = NilErr

C7_Witness ==
    /\ pc = "done"
    /\ \E g \in Idx :
          /\ log[g].op = "Get"
          /\ FlagDriven(log[g].src)
          /\ log[g].src > 1
          /\ log[g].err = ErrMissing

----------------------------------------------------------------------------
(* Properties of the sources *)

FileBacked(i) ==
    ctor[i].fn \in {"WithConfigFile", "NewJSONSource", "WithJSONFile",
                    "WithJSONFileFlag"}

Queried(i) == \E j \in Idx : log[j].op = "Get" /\ log[j].src = i

\* C8: a file-backed source opens its file once, on the first Get, however
\* that first load ends, and never without a Get.
C8_LoadedAtMostOnce ==
    \A i \in 1..Len(ctor) :
        FileBacked(i) => opens[i] = IF Queried(i) THEN 1 ELSE 0

\* the key is simply absent from a source whose data could be loaded
LoadedAbsent(i, key) ==
    IF ctor[i].fn = "WithEnv" THEN ~Has(environ, EnvLoc(srcs[i], key))
    ELSE /\ Has(fsys, srcs[i].filename)
         /\ LET f == Lookup(fsys, srcs[i].filename) IN
            IF ctor[i].fn = "WithConfigFile"
            THEN ~Has(PlainScan({}, f.lines), key)
            ELSE f.t = "object" /\ ~Has(f.m, key)

\* C9: Get on a key that is absent from a loaded source returns ErrMissing,
\* for the environment, the plain-text and the JSON source.
C9_AbsentIsMissing ==
    \A j \in Idx :
        (log[j].op = "Get" /\ LoadedAbsent(log[j].src, log[j].key)) =>
            log[j].err = ErrMissing

\* [PREFIX_]KEY
ExpectedVar(prefix, key) ==
    LET KEY == EnvVarReplace(ToUpper(key)) IN
    IF prefix = <<>> THEN KEY
    ELSE EnvVarReplace(ToUpper(prefix)) \o <<"_">> \o KEY

\* C10: the environment source looks up [PREFIX_]KEY: with an empty prefix
\* exactly the transformed key, and Name() is then plain "environment
\* variables".
C10_EnvVarName ==
    \A j \in Idx :
        (log[j].op = "Get" /\ ctor[log[j].src].fn = "WithEnv") =>
            LET i == log[j].src
                v == ExpectedVar(ctor[i].arg, log[j].key)
            IN  /\ EnvLoc(srcs[i], log[j].key) = v
                /\ IF Has(environ, v)
                   THEN /\ log[j].err = NilErr
                        /\ log[j].vals = Split(Lookup(environ, v), ",")
                   ELSE log[j].err = ErrMissing
                /\ ctor[i].arg = <<>> =>
                      Name(srcs[i]) = <<"environment variables">>

\* the position of the first whitespace character of any kind; 0 when none
IndexSpace(s) ==
    IF \E i \in 1..Len(s) : IsSpace(s[i])
    THEN CHOOSE i \in 1..Len(s) :
            IsSpace(s[i]) /\ \A j \in 1..(i - 1) : ~IsSpace(s[j])
    ELSE 0

\* the entry one line stands for when it is split at its first whitespace run
EntryOfLine(m, text) ==
    LET line  == TrimSpace(text)
        index == IndexSpace(line)
        name  == IF index = 0 THEN line ELSE SubSeq(line, 1, index - 1)
        value == IF index = 0 THEN <<"t", "r", "u", "e">>
                 ELSE TrimSpace(SubSeq(line, index, Len(line)))
        i     == Index(value, <<" ", "#">>)
        cut   == IF i > 0 THEN TrimSpace(SubSeq(value, 1, i - 1)) ELSE value
    IN  IF line = <<>> \/ line[1] = "#" THEN m
        ELSE Put(m, name, Split(cut, ","))

RECURSIVE EntriesOf(_, _)
EntriesOf(m, lines) ==
    IF lines = <<>> THEN m
    ELSE EntriesOf(EntryOfLine(m, Head(lines)), Tail(lines))

\* C11: once a plain-text source has loaded its file, its mapping has one
\* entry per line that is neither empty nor a '#' line: the key is the text
\* before the first whitespace run (space or tab), the values are the
\* remainder without its " #" comment split on commas, or ["true"] when
\* there is no remainder.
C11_PlainEntries ==
    \A i \in 1..Len(ctor) :
        (/\ ctor[i].fn = "WithConfigFile"
         /\ ~srcs[i].mnil
         /\ Has(fsys, srcs[i].filename)) =>
            srcs[i].m = EntriesOf({}, Lookup(fsys, srcs[i].filename).lines)

FailedSet(i) == log[i].op = "Set" /\ log[i].err # NilErr

InitValue(n) ==
    LET v == IF \E i \in 1..Len(args) : args[i].name = n
             THEN ArgValue(n) ELSE Lookup(decl, n).def
    IN  IF v = <<>> THEN Lookup(decl, n).def ELSE v

\* C13: the value a flag-driven source is initialised with is the needed
\* flag's string as the arguments left it, or the declared default when
\* that string is empty, whatever the sources hold; the source keeps it as
\* its filename even when the sweep later sets the needed flag.
C13_InitValueFromArgs ==
    \A j \in Idx :
        log[j].op = "WithFlagValue" =>
            /\ log[j].key = ctor[log[j].src].arg
            /\ log[j].arg = InitValue(log[j].key)
            /\ srcs[log[j].src].filename = log[j].arg

\* the sweep has set the needed flag from a source to something else
C13_Witness ==
    /\ pc = "done"
    /\ ret = NilErr
    /\ \E j \in Idx :
          /\ log[j].op = "WithFlagValue"
          /\ Lookup(fs, log[j].key) # log[j].arg
          /\ \E g \in Idx : /\ log[g].op = "Set"
                            /\ log[g].key = log[j].key
                            /\ log[g].err = NilErr

====
